---- MODULE Spec2Model ----
(***************************************************************************)
(* The ROM-protocol engine of espflash (src/espflash/src/flasher.rs): the  *)
(* Flasher, its connect sequence (sync storm, chip detect, SPI             *)
(* autodetect, baud change) and its two load operations.                   *)
(*                                                                         *)
(* The Connection (command channel), the Chip tables and the FirmwareImage *)
(* live in other files of the crate; the model takes their behaviour from  *)
(* the specification: a command is written once and then answered by a     *)
(* value, a Timeout, a RomError or a transport failure.                    *)
(***************************************************************************)
EXTENDS Integers, Sequences, FiniteSets

VARIABLES
    pc,          \* position of the single caller inside the Flasher's code
    op,          \* the public operation in progress (or the last one)
    chip,        \* Flasher.chip
    flash_size,  \* Flasher.flash_size
    spi_params,  \* Flasher.spi_params
    baud,        \* the transport's baud rate
    log,         \* what the current public operation wrote to the transport
    result,      \* what the last public operation returned
    attempt,     \* start_connection: iterations of `for _ in 0..10` completed
    cnt,         \* the running loop's counter (sync read, sync drain, spi poll)
    storm,       \* what the scripted transport observed during start_connection
    cand,        \* spi_autodetect: index into TRY_SPI_PARAMS
    spi,         \* spi_command's locals and what it has done so far
    speed,       \* the speed argument of connect / change_baud, once read
    elf,         \* the image argument of the running load
    seg,         \* index of the segment being streamed
    blk,         \* index of the next chunk of that segment
    prev,        \* the command an earlier operation wrote last without reading a response
    call         \* the pure function applied last, its arguments and its value

vars == <<pc, op, chip, flash_size, spi_params, baud, log, result, attempt,
          cnt, storm, cand, spi, speed, elf, seg, blk, prev, call>>

(***************************************************************************)
(* Program constants.                                                      *)
(***************************************************************************)
MAX_RAM_BLOCK_SIZE == 6144
FLASH_SECTOR_SIZE == 4096
FLASH_BLOCK_SIZE == 256
FLASH_SECTORS_PER_BLOCK == FLASH_SECTOR_SIZE \div FLASH_BLOCK_SIZE
FLASH_WRITE_SIZE == 1024
CHECKSUM_INIT == 239

\* enum Command
FlashBegin == 2
FlashData == 3
FlashEnd == 4
MemBegin == 5
MemEnd == 6
MemData == 7
Sync == 8
WriteReg == 9
ReadReg == 10
SpiAttach == 13
ChangeBaud == 15

\* the loop limits of sync, start_connection and spi_command
SyncReadLimit == 100
SyncDrainLimit == 700
SyncAttempts == 10
SpiPollLimit == 10

\* BaudRate::Baud115200.speed(), the baud of a fresh Connection
Baud115200 == 115200

(***************************************************************************)
(* Bounds of the model.                                                    *)
(***************************************************************************)
\* the longest data slice and the longest padding handed to block_command
\* when its checksum is looked at on its own
MaxDataLen == 2
MaxPadding == 3

\* how many status==1 SYNC frames the ROM sends during one start_connection
MaxSyncRomErrors == 1

\* how many frames the ROM has sent after a SYNC response, at most
MaxStale == 3

(***************************************************************************)
(* 32-bit words.  TLC's integers stop below 2^31, so a u32 that may have   *)
(* its top bit set is kept as its two 16-bit halves.                       *)
(***************************************************************************)
W(h, l) == [hi |-> h, lo |-> l]

RECURSIVE Pow2(_)
Pow2(n) == IF n = 0 THEN 1 ELSE 2 * Pow2(n - 1)

\* 1 << n as a word
Bit(n) == IF n >= 16 THEN W(Pow2(n - 16), 0) ELSE W(0, Pow2(n))

\* whether bit n of w is set: w & (1 << n) != 0
TestBit(w, n) ==
    IF n >= 16 THEN (w.hi \div Pow2(n - 16)) % 2 = 1
               ELSE (w.lo \div Pow2(n)) % 2 = 1

\* a | b for words whose set bits are disjoint
OrDisjoint(a, b) == W(a.hi + b.hi, a.lo + b.lo)

\* (w >> 16) as u8
HighOctet(w) == w.hi % 256

FromNat(n) == W(n \div 65536, n % 65536)

(***************************************************************************)
(* Errors and results.                                                     *)
(***************************************************************************)
Res(k, c) == [kind |-> k, code |-> c]
NoResult == Res("None", 0)
Ok == Res("Ok", 0)
Timeout == Res("Timeout", 0)
TransportIo == Res("TransportIo", 0)
ConnectionFailed == Res("ConnectionFailed", 0)
UnrecognizedChip == Res("UnrecognizedChip", 0)
InvalidElf == Res("InvalidElf", 0)
ElfNotRamLoadable == Res("ElfNotRamLoadable", 0)
RomError(e) == Res("RomError", e)
UnsupportedFlash(v) == Res("UnsupportedFlash", v)

\* the ROM error codes the scripted ROM answers with during the sync storm
RomErrorCodes == {5, 6}

\* how a Connection::command call can fail
CommandErrors == {Timeout, TransportIo, RomError(5)}

(***************************************************************************)
(* The transport log: every request packet and control-line pulse of the   *)
(* running operation, each with what the transport answered to it.         *)
(***************************************************************************)
NoWord == W(0, 0)

\* write_command went through; no response was read for it
NotRead == Res("NotRead", 0)

\* one request packet: opcode, payload and checksum word; resp, rval and
\* magic are filled in with the answer
Cmd(o, params, reg, val, dlen, plen, pbyte, chk) ==
    [ev |-> "cmd", op |-> o, params |-> params, reg |-> reg, val |-> val,
     dlen |-> dlen, plen |-> plen, pbyte |-> pbyte, check |-> chk,
     resp |-> NoResult, rval |-> NoWord, magic |-> ""]

\* the entry of a request answered by r, and of a READ_REG answered by word v
Answered(c, r) == [c EXCEPT !.resp = r]
AnsweredWord(c, v) == [c EXCEPT !.resp = Ok, !.rval = v]

\* a command whose payload is a few little-endian words
PlainCmd(o, params) == Cmd(o, params, "", NoWord, 0, 0, 0, 0)

\* a pulse on the control lines
Line(name) == [ev |-> name, op |-> 0, params |-> <<>>, reg |-> "", val |-> NoWord,
               dlen |-> 0, plen |-> 0, pbyte |-> 0, check |-> 0,
               resp |-> NoResult, rval |-> NoWord, magic |-> ""]

IsCmd(e, o) == e.ev = "cmd" /\ e.op = o

Count(s, P(_)) == Cardinality({k \in 1..Len(s) : P(s[k])})

(***************************************************************************)
(* Collaborators: the Chip tables and the FirmwareImage.                   *)
(***************************************************************************)
Chips == {"Esp8266", "Esp32", "Esp32c3"}

\* what READ_REG of the magic register can answer: one magic word per variant
\* and a word that belongs to none
Magics == {"magic:Esp8266", "magic:Esp32", "magic:Esp32c3", "magic:other"}

\* Chip::from_magic: the variant of a magic word, "None" when there is none
from_magic(m) ==
    CASE m = "magic:Esp8266" -> "Esp8266"
      [] m = "magic:Esp32" -> "Esp32"
      [] m = "magic:Esp32c3" -> "Esp32c3"
      [] OTHER -> "None"

\* spi_registers().mosi_length() / miso_length() are Some: the older variant
\* has the combined usr1 register only
has_length_registers(c) == c # "Esp8266"

\* a segment: address, length, and the byte its data is filled with;
\* ok = FALSE is an Err item of the flash-segment iterator
Segment(a, n, f) == [addr |-> a, len |-> n, fill |-> f, ok |-> TRUE]
BadSegment == [addr |-> 0, len |-> 0, fill |-> 0, ok |-> FALSE]

Image(v, r, ram, flash, e) ==
    [valid |-> v, rom |-> r, ram |-> ram, flash |-> flash, entry |-> e]

\* the images the caller passes to the load operations
Elfs ==
    { Image(FALSE, FALSE, <<>>, <<>>, 0),
      Image(TRUE, TRUE, <<Segment(1074790400, 8, 165)>>,
            <<Segment(65536, 16, 165)>>, 1074790400),
      Image(TRUE, FALSE, <<Segment(1074790400, 8192, 165)>>,
            <<Segment(4096, 1025, 165)>>, 1074790400),
      Image(TRUE, FALSE, <<Segment(1074790400, 6144, 60)>>,
            <<Segment(0, 1024, 60), Segment(65536, 3, 255)>>, 0),
      Image(TRUE, FALSE, <<Segment(1074790400, 5, 165), Segment(1074855936, 6145, 60)>>,
            <<Segment(4096, 0, 0), Segment(8192, 2047, 165)>>, 1074790404),
      Image(TRUE, FALSE, <<Segment(1074790400, 0, 0)>>,
            <<Segment(0, 16, 165), BadSegment>>, 1074790400),
      Image(TRUE, FALSE, <<>>, <<>>, 1074790400) }

NoElf == Image(FALSE, FALSE, <<>>, <<>>, 0)

\* the bytes of chunk k (from 0) of a segment cut into chunks of `size`
ChunkCount(n, size) == (n + size - 1) \div size
ChunkLen(n, size, k) == IF (k + 1) * size <= n THEN size ELSE n - k * size
ChunkData(s, size, k) == [j \in 1..ChunkLen(s.len, size, k) |-> s.fill]

(***************************************************************************)
(* Pure functions of flasher.rs.                                           *)
(***************************************************************************)
RECURSIVE XorBits(_, _, _)
XorBits(a, b, n) ==
    IF n = 0 THEN 0
    ELSE (((a % 2) + (b % 2)) % 2) + 2 * XorBits(a \div 2, b \div 2, n - 1)

\* a ^ b on u8, tabulated
XorTable == [a \in 0..255 |-> [b \in 0..255 |-> XorBits(a, b, 8)]]
Xor8(a, b) == XorTable[a][b]

\* checksum(data, checksum): `for byte in data { checksum ^= *byte }`, the
\* bytes lo..hi of d taken left to right
RECURSIVE ChecksumRange(_, _, _, _)
ChecksumRange(d, lo, hi, c) ==
    IF lo > hi THEN c
    ELSE IF lo = hi THEN Xor8(c, d[lo])
    ELSE LET mid == (lo + hi) \div 2
             left == ChecksumRange(d, lo, mid, c)
         IN  IF left >= 0 THEN ChecksumRange(d, mid + 1, hi, left) ELSE left

checksum(data, c) == ChecksumRange(data, 1, Len(data), c)

Min(a, b) == IF a < b THEN a ELSE b

\* an erase size that is the sectors the payload covers
get_erase_sizeWholeSectors(offset, size) ==
    ((size + FLASH_SECTOR_SIZE - 1) \div FLASH_SECTOR_SIZE) * FLASH_SECTOR_SIZE

get_erase_size(offset, size) ==
    LET sector_count == (size + FLASH_SECTOR_SIZE - 1) \div FLASH_SECTOR_SIZE
        start_sector == offset \div FLASH_SECTOR_SIZE
        head_sectors == Min(FLASH_SECTORS_PER_BLOCK
                              - (start_sector % FLASH_SECTORS_PER_BLOCK),
                            sector_count)
    IN  IF sector_count < 2 * head_sectors
        THEN ((sector_count + 1) \div 2) * FLASH_SECTOR_SIZE
        ELSE (sector_count - head_sectors) * FLASH_SECTOR_SIZE

\* enum FlashSize, by discriminant
FlashRetry == 255
Flash4Mb == 22
FlashSizes == 18..24

\* a FlashSize::from that takes every byte for a size
FlashSizeFromAnyByte(value) == [ok |-> TRUE, size |-> value, err |-> NoResult]

\* FlashSize::from: the size of a byte, or the error
FlashSizeFrom(value) ==
    IF value \in FlashSizes \/ value = FlashRetry
    THEN [ok |-> TRUE, size |-> value, err |-> NoResult]
    ELSE [ok |-> FALSE, size |-> 0, err |-> UnsupportedFlash(value)]

SpiAttachParams(clk, q, d, hd, cs) == [clk |-> clk, q |-> q, d |-> d, hd |-> hd, cs |-> cs]
SpiDefault == SpiAttachParams(0, 0, 0, 0, 0)
SpiEsp32PicoD4 == SpiAttachParams(6, 17, 8, 11, 16)
TRY_SPI_PARAMS == <<SpiDefault, SpiEsp32PicoD4>>

RECURSIVE BitOr(_, _)
BitOr(a, b) ==
    IF a = 0 THEN b
    ELSE IF b = 0 THEN a
    ELSE (IF a % 2 = 1 \/ b % 2 = 1 THEN 1 ELSE 0) + 2 * BitOr(a \div 2, b \div 2)

\* an encode with cs and hd in each other's place
encodeSwapped(p) ==
    LET packed == BitOr(BitOr(BitOr(BitOr(p.cs * Pow2(24), p.hd * Pow2(18)),
                                    p.d * Pow2(12)), p.q * Pow2(6)), p.clk)
    IN  IF packed = 0 THEN <<0, 0, 0, 0, 0>>
        ELSE <<packed % 256, (packed \div 256) % 256,
               (packed \div 65536) % 256, (packed \div 16777216) % 256>>

\* SpiAttachParams::encode: the payload bytes of SPI_ATTACH
encode(p) ==
    LET packed == BitOr(BitOr(BitOr(BitOr(p.hd * Pow2(24), p.cs * Pow2(18)),
                                    p.d * Pow2(12)), p.q * Pow2(6)), p.clk)
    IN  IF packed = 0 THEN <<0, 0, 0, 0, 0>>
        ELSE <<packed % 256, (packed \div 256) % 256,
               (packed \div 65536) % 256, (packed \div 16777216) % 256>>

(***************************************************************************)
(* Construction: Flasher::connect starts with the dummy field values.      *)
(***************************************************************************)
\* what the transport saw of the running start_connection
\* (stale: the frames the ROM sent after the SYNC response of the running
\* attempt, -1 while the attempt has read none; drained: how many of them the
\* attempt has read)
StormInit ==
    [flushes |-> 0, syncSeen |-> FALSE, onlyTimeouts |-> TRUE,
     romErrs |-> 0, romErr |-> 0, stale |-> -1, drained |-> 0, ret |-> NoResult]

SpiInit ==
    [old_usr |-> NoWord, old_usr2 |-> NoWord, value |-> NoWord,
     overwritten |-> FALSE, restored |-> FALSE, ret |-> NoResult]

NoSpeed == 0

\* no pure function has been applied
NoCall == [fn |-> "none", args |-> <<>>, ret |-> <<>>]

Init ==
    /\ pc = "start_connection"
    /\ op = "connect"
    /\ chip = "Esp8266"
    /\ flash_size = Flash4Mb
    /\ spi_params = SpiDefault
    /\ baud = Baud115200
    /\ log = <<>>
    /\ result = NoResult
    /\ attempt = 0
    /\ cnt = 0
    /\ storm = StormInit
    /\ cand = 1
    /\ spi = SpiInit
    /\ speed = NoSpeed
    /\ elf = NoElf
    /\ seg = 1
    /\ blk = 0
    /\ prev = {}
    /\ call = NoCall

\* the fields of the Flasher and the transport's baud
flasher == <<chip, flash_size, spi_params, baud>>
\* the arguments and loop state of the load operations
loading == <<elf, seg, blk>>

(***************************************************************************)
(* The sync storm: start_connection and sync.                              *)
(***************************************************************************)
\* SYNC and its 36 payload bytes: 07 07 12 20, then thirty-two 0x55
SyncCmd == Cmd(Sync, <<7, 7, 18, 32>>, "", NoWord, 0, 32, 85, 0)

\* read_response: a decoded frame, or a frame too short to be one (None)
Frame(o, st, e) == [short |-> FALSE, return_op |-> o, status |-> st, error |-> e]
ShortFrame == [short |-> TRUE, return_op |-> 0, status |-> 0, error |-> 0]

\* the frames the ROM answers with while the host syncs
SyncFrames ==
    {ShortFrame, Frame(ReadReg, 0, 0), Frame(ReadReg, 1, 5), Frame(Sync, 0, 0)}
        \cup {Frame(Sync, 1, e) : e \in RomErrorCodes}

\* how a read can fail
ReadErrors == {Timeout, TransportIo}

\* connect returns Err(e): no Flasher is handed out
ConnectFails(e) ==
    /\ pc' = "failed"
    /\ result' = e

\* a start_connection whose loop flushes once, before the loop
SyncFailedSkipsFlush(e, st) ==
    /\ attempt' = attempt + 1
    /\ storm' = [st EXCEPT !.onlyTimeouts = st.onlyTimeouts /\ e = Timeout,
                           !.stale = -1, !.drained = 0]
    /\ pc' = IF attempt + 1 < SyncAttempts THEN "sync_write" ELSE "sc_flush"
    /\ cnt' = 0
    /\ UNCHANGED result

\* `if self.sync().is_ok()` saw an Err: the next iteration of the loop
SyncFailed(e, st) ==
    /\ attempt' = attempt + 1
    /\ storm' = [st EXCEPT !.onlyTimeouts = st.onlyTimeouts /\ e = Timeout,
                           !.stale = -1, !.drained = 0]
    /\ pc' = "sc_flush"
    /\ cnt' = 0
    /\ UNCHANGED result

\* sync returned Ok(()): start_connection returns Ok(())
SyncOk(st) ==
    /\ storm' = [st EXCEPT !.ret = Ok]
    /\ pc' = "set_timeout"
    /\ cnt' = 0
    /\ UNCHANGED <<attempt, result>>

\* self.connection.reset_to_flash()?
ResetToFlash ==
    /\ pc = "start_connection"
    /\ \E r \in {Ok, TransportIo} :
          /\ log' = Append(log, Answered(Line("reset_to_flash"), r))
          /\ IF r = Ok
             THEN pc' = "sc_flush" /\ storm' = storm /\ UNCHANGED result
             ELSE ConnectFails(r) /\ storm' = [storm EXCEPT !.ret = r]
    /\ UNCHANGED <<op, flasher, attempt, cnt, cand, spi, speed, loading>>
    /\ UNCHANGED <<prev, call>>

\* `for _ in 0..10 { self.connection.flush()?; ...`
StormFlush ==
    /\ pc = "sc_flush"
    /\ attempt < SyncAttempts
    /\ \E r \in {Ok, TransportIo} :
          IF r = Ok
          THEN /\ pc' = "sync_write"
               /\ storm' = [storm EXCEPT !.flushes = @ + 1]
               /\ UNCHANGED result
          ELSE /\ ConnectFails(r)
               /\ storm' = [storm EXCEPT !.flushes = @ + 1, !.ret = r]
    /\ UNCHANGED <<op, flasher, log, attempt, cnt, cand, spi, speed, loading>>
    /\ UNCHANGED <<prev, call>>

\* the loop ran out: Err(Error::ConnectionFailed)
StormGiveUp ==
    /\ pc = "sc_flush"
    /\ attempt = SyncAttempts
    /\ ConnectFails(ConnectionFailed)
    /\ storm' = [storm EXCEPT !.ret = ConnectionFailed]
    /\ UNCHANGED <<op, flasher, log, attempt, cnt, cand, spi, speed, loading>>
    /\ UNCHANGED <<prev, call>>

\* connection.write_command(Command::Sync as u8, data, 0)?
SyncWrite ==
    /\ pc = "sync_write"
    /\ log' = Append(log, Answered(SyncCmd, NotRead))
    /\ \E r \in {NotRead, TransportIo} :
          /\ IF r = NotRead
             THEN pc' = "sync_read" /\ cnt' = 0 /\ UNCHANGED <<attempt, storm, result>>
             ELSE SyncFailed(r, storm)
    /\ UNCHANGED <<op, flasher, cand, spi, speed, loading>>
    /\ UNCHANGED <<prev, call>>

\* one iteration of `for _ in 0..100 { match connection.read_response()? ...`
SyncRead ==
    /\ pc = "sync_read"
    /\ \/ \E e \in ReadErrors : SyncFailed(e, storm)
       \/ \E f \in SyncFrames :
             IF ~f.short /\ f.return_op = Sync
             THEN IF f.status = 1
                  THEN \* let _error = connection.flush(); return Err(RomError)
                       /\ storm.romErrs < MaxSyncRomErrors
                       /\ SyncFailed(RomError(f.error),
                                     [storm EXCEPT !.flushes = @ + 1,
                                                   !.romErrs = @ + 1,
                                                   !.romErr = f.error])
                  ELSE \* break
                       /\ pc' = "sync_drain"
                       /\ cnt' = 0
                       /\ \E n \in 0..MaxStale :
                             storm' = [storm EXCEPT !.syncSeen = TRUE,
                                                    !.stale = n, !.drained = 0]
                       /\ UNCHANGED <<attempt, result>>
             ELSE \* continue; after the last iteration the loop is left
                  /\ IF cnt + 1 < SyncReadLimit
                     THEN pc' = "sync_read" /\ cnt' = cnt + 1
                     ELSE pc' = "sync_drain" /\ cnt' = 0
                  /\ UNCHANGED <<attempt, storm, result>>
    /\ UNCHANGED <<op, flasher, log, cand, spi, speed, loading>>
    /\ UNCHANGED <<prev, call>>

\* one iteration of `for _ in 0..700 { match self.connection.read_response()? ...`
\* after the inner loop ran out without a SYNC response: whatever arrives
SyncDrainAny ==
    /\ storm.stale < 0
    /\ \/ \E e \in ReadErrors : SyncFailed(e, storm)
       \/ \E f \in SyncFrames :
             IF ~f.short
             THEN SyncOk(storm)
             ELSE IF cnt + 1 < SyncDrainLimit
                  THEN pc' = "sync_drain" /\ cnt' = cnt + 1
                       /\ UNCHANGED <<attempt, storm, result>>
                  ELSE SyncOk(storm)

\* the same iteration after a SYNC response: the read takes the next of the
\* frames the ROM sent, and fails once there is none left
SyncDrainStale ==
    /\ storm.stale >= 0
    /\ IF storm.drained < storm.stale
       THEN \/ SyncFailed(TransportIo, storm)
            \/ \E f \in SyncFrames :
                  LET st == [storm EXCEPT !.drained = @ + 1]
                  IN  IF ~f.short
                      THEN SyncOk(st)
                      ELSE IF cnt + 1 < SyncDrainLimit
                           THEN pc' = "sync_drain" /\ cnt' = cnt + 1 /\ storm' = st
                                /\ UNCHANGED <<attempt, result>>
                           ELSE SyncOk(st)
       ELSE \E e \in ReadErrors : SyncFailed(e, storm)

SyncDrain ==
    /\ pc = "sync_drain"
    /\ SyncDrainAny \/ SyncDrainStale
    /\ UNCHANGED <<op, flasher, log, cand, spi, speed, loading>>
    /\ UNCHANGED <<prev, call>>

(***************************************************************************)
(* connect after the storm: set_timeout, chip_detect, spi_autodetect.      *)
(***************************************************************************)
CHIP_DETECT_MAGIC_REG_ADDR == 1073745920

\* read_reg(reg) / write_reg(reg, value, None) of a register of the SPI
\* peripheral; the mask (0xFFFFFFFF) and delay_us (0) are the same in every
\* WRITE_REG and are left out of the log
ReadRegCmd(reg) == Cmd(ReadReg, <<>>, reg, NoWord, 0, 0, 0, 0)
WriteRegCmd(reg, val) == Cmd(WriteReg, <<>>, reg, val, 0, 0, 0, 0)

\* begin_command: the BeginParams, without `encrypted` on the two oldest chips
BeginCmd(command, size, blocks, block_size, offset) ==
    PlainCmd(command,
             IF chip = "Esp32" \/ chip = "Esp8266"
             THEN <<size, blocks, block_size, offset>>
             ELSE <<size, blocks, block_size, offset, 0>>)

\* enable_flash: what it writes for the chip at hand
EnableFlashCmd(p) ==
    IF chip = "Esp8266"
    THEN BeginCmd(FlashBegin, 0, 0, FLASH_WRITE_SIZE, 0)
    ELSE PlainCmd(SpiAttach, encode(p))

\* read_reg(CHIP_DETECT_MAGIC_REG_ADDR)
MagicCmd == PlainCmd(ReadReg, <<CHIP_DETECT_MAGIC_REG_ADDR>>)

\* flasher.connection.set_timeout(DEFAULT_TIMEOUT)?
SetTimeout ==
    /\ pc = "set_timeout"
    /\ storm' = StormInit
    /\ \E r \in {Ok, TransportIo} :
          IF r = Ok THEN pc' = "chip_detect" /\ UNCHANGED result
                    ELSE ConnectFails(r)
    /\ UNCHANGED <<op, flasher, log, attempt, cnt, cand, spi, speed, loading>>
    /\ UNCHANGED <<prev, call>>

\* a chip_detect that keeps the dummy variant when the magic matches none
chip_detectKeepsDummy ==
    /\ pc = "chip_detect"
    /\ \/ \E e \in CommandErrors :
             /\ log' = Append(log, Answered(MagicCmd, e))
             /\ ConnectFails(e) /\ UNCHANGED chip
       \/ \E m \in Magics :
             /\ log' = Append(log, [MagicCmd EXCEPT !.resp = Ok, !.magic = m])
             /\ chip' = IF from_magic(m) = "None" THEN chip ELSE from_magic(m)
             /\ pc' = "enable_flash" /\ UNCHANGED result
    /\ cand' = 1
    /\ UNCHANGED <<op, flash_size, spi_params, baud, attempt, cnt, storm, spi,
                   speed, loading>>
    /\ UNCHANGED <<prev, call>>

\* chip_detect: read_reg(CHIP_DETECT_MAGIC_REG_ADDR)?, Chip::from_magic
chip_detect ==
    /\ pc = "chip_detect"
    /\ \/ \E e \in CommandErrors :
             /\ log' = Append(log, Answered(MagicCmd, e))
             /\ ConnectFails(e) /\ UNCHANGED chip
       \/ \E m \in Magics :
             /\ log' = Append(log, [MagicCmd EXCEPT !.resp = Ok, !.magic = m])
             /\ IF from_magic(m) = "None"
                THEN ConnectFails(UnrecognizedChip) /\ UNCHANGED chip
                ELSE chip' = from_magic(m) /\ pc' = "enable_flash" /\ UNCHANGED result
    /\ cand' = 1
    /\ UNCHANGED <<op, flash_size, spi_params, baud, attempt, cnt, storm, spi,
                   speed, loading>>
    /\ UNCHANGED <<prev, call>>

\* the candidates taken from the back of the list
TrySpiBackwards(c) == TRY_SPI_PARAMS[Len(TRY_SPI_PARAMS) + 1 - c]

\* `for spi_params in TRY_SPI_PARAMS.iter().copied()`: the candidate of turn c
TrySpi(c) == TRY_SPI_PARAMS[c]

\* spi_autodetect: self.enable_flash(spi_params)? for the candidate at hand
AutodetectEnable ==
    /\ pc = "enable_flash"
    /\ op = "connect"
    /\ \E r \in {Ok} \cup CommandErrors :
          /\ log' = Append(log, Answered(EnableFlashCmd(TrySpi(cand)), r))
          /\ IF r = Ok THEN pc' = "spi_rd_usr" /\ UNCHANGED result
                       ELSE ConnectFails(r)
    /\ UNCHANGED <<op, flasher, attempt, cnt, storm, cand, spi, speed, loading>>
    /\ UNCHANGED <<prev, call>>

(***************************************************************************)
(* spi_command(0x9f, &[], 24), the one call flash_detect makes.            *)
(***************************************************************************)
SpiCommand == 159
SpiReadBits == 24
SpiData == <<>>

\* what the ROM answers to the READ_REGs of spi_command
UsrValues == {W(32768, 64)}
Usr2Values == {W(28672, 5)}
PollValues == {W(4, 0), W(0, 0)}
FlashIds == {W(22, 16623), W(255, 65535), W(43796, 1), W(32, 0)}

\* usr: bit 31, bit 27 iff there is data, bit 28 iff bits are read back
SpiFlags ==
    OrDisjoint(Bit(31),
        OrDisjoint(IF SpiData # <<>> THEN Bit(27) ELSE NoWord,
                   IF SpiReadBits > 0 THEN Bit(28) ELSE NoWord))

\* usr2: 7 << 28 | command
SpiUsr2 == W(7 * Pow2(12), SpiCommand)

\* a command of spi_command failed: the error goes up through flash_detect
\* and spi_autodetect to connect's caller
SpiFails(e) ==
    /\ spi' = [spi EXCEPT !.ret = e]
    /\ ConnectFails(e)

\* one write_reg(reg, val, None)? of spi_command
SpiWrite(here, reg, val, next, after) ==
    /\ pc = here
    /\ \E r \in {Ok} \cup CommandErrors :
          /\ log' = Append(log, Answered(WriteRegCmd(reg, val), r))
          /\ IF r = Ok THEN pc' = next /\ spi' = after /\ UNCHANGED result
                       ELSE SpiFails(r)
    /\ UNCHANGED <<op, flasher, attempt, cnt, storm, cand, speed, loading>>
    /\ UNCHANGED <<prev, call>>

\* let old_spi_usr = self.read_reg(spi_registers.usr())?
SpiReadUsr ==
    /\ pc = "spi_rd_usr"
    /\ \/ \E e \in CommandErrors :
             /\ log' = Append(log, Answered(ReadRegCmd("usr"), e))
             /\ spi' = [SpiInit EXCEPT !.ret = e]
             /\ ConnectFails(e)
       \/ \E v \in UsrValues :
             /\ log' = Append(log, AnsweredWord(ReadRegCmd("usr"), v))
             /\ spi' = [SpiInit EXCEPT !.old_usr = v]
             /\ pc' = "spi_rd_usr2"
             /\ UNCHANGED result
    /\ UNCHANGED <<op, flasher, attempt, cnt, storm, cand, speed, loading>>
    /\ UNCHANGED <<prev, call>>

\* let old_spi_usr2 = self.read_reg(spi_registers.usr2())?
SpiReadUsr2 ==
    /\ pc = "spi_rd_usr2"
    /\ \/ \E e \in CommandErrors :
             /\ log' = Append(log, Answered(ReadRegCmd("usr2"), e))
             /\ SpiFails(e)
       \/ \E v \in Usr2Values :
             /\ log' = Append(log, AnsweredWord(ReadRegCmd("usr2"), v))
             /\ spi' = [spi EXCEPT !.old_usr2 = v]
             /\ pc' = "spi_wr_usr"
             /\ UNCHANGED result
    /\ UNCHANGED <<op, flasher, attempt, cnt, storm, cand, speed, loading>>
    /\ UNCHANGED <<prev, call>>

\* self.write_reg(spi_registers.usr(), flags, None)?
SpiWriteUsr ==
    SpiWrite("spi_wr_usr", "usr", SpiFlags, "spi_wr_usr2",
             [spi EXCEPT !.overwritten = TRUE])

\* self.write_reg(spi_registers.usr2(), 7 << 28 | command as u32, None)?
SpiWriteUsr2 ==
    SpiWrite("spi_wr_usr2", "usr2", SpiUsr2, "spi_len", spi)

\* the transfer lengths: miso_length where the chip has length registers
\* (no mosi_length write, the data being empty), the combined usr1 otherwise
SpiWriteLength ==
    LET miso_mask == IF SpiReadBits = 0 THEN 0 ELSE SpiReadBits - 1
        mosi_mask == IF SpiData = <<>> THEN 0 ELSE Len(SpiData) * 8 - 1
    IN  IF has_length_registers(chip)
        THEN SpiWrite("spi_len", "miso_length", FromNat(SpiReadBits - 1), "spi_w0", spi)
        ELSE SpiWrite("spi_len", "usr1",
                      FromNat(miso_mask * Pow2(8) + mosi_mask * Pow2(17)), "spi_w0", spi)

\* data.is_empty(): self.write_reg(spi_registers.w0(), 0, None)?
SpiWriteW0 ==
    SpiWrite("spi_w0", "w0", FromNat(0), "spi_cmd", spi)

\* self.write_reg(spi_registers.cmd(), 1 << 18, None)?
SpiStart ==
    /\ SpiWrite("spi_cmd", "cmd", Bit(18), "spi_poll", spi)
    /\ cnt' = 0

\* one turn of the busy loop: read usr, leave when bit 18 is clear,
\* `i += 1; if i > 10 { return Err(Error::Timeout) }` otherwise
SpiPoll ==
    /\ pc = "spi_poll"
    /\ \/ \E e \in CommandErrors :
             /\ log' = Append(log, Answered(ReadRegCmd("usr"), e))
             /\ SpiFails(e) /\ UNCHANGED cnt
       \/ \E v \in PollValues :
             /\ log' = Append(log, AnsweredWord(ReadRegCmd("usr"), v))
             /\ IF ~TestBit(v, 18)
                THEN pc' = "spi_rd_w0" /\ UNCHANGED <<cnt, spi, result>>
                ELSE /\ cnt' = cnt + 1
                     /\ IF cnt + 1 > SpiPollLimit
                        THEN SpiFails(Timeout)
                        ELSE pc' = "spi_poll" /\ UNCHANGED <<spi, result>>
    /\ UNCHANGED <<op, flasher, attempt, storm, cand, speed, loading>>
    /\ UNCHANGED <<prev, call>>

\* let result = self.read_reg(spi_registers.w0())?
SpiReadW0 ==
    /\ pc = "spi_rd_w0"
    /\ \/ \E e \in CommandErrors :
             /\ log' = Append(log, Answered(ReadRegCmd("w0"), e))
             /\ SpiFails(e)
       \/ \E v \in FlashIds :
             /\ log' = Append(log, AnsweredWord(ReadRegCmd("w0"), v))
             /\ spi' = [spi EXCEPT !.value = v]
             /\ pc' = "spi_rs_usr"
             /\ UNCHANGED result
    /\ UNCHANGED <<op, flasher, attempt, cnt, storm, cand, speed, loading>>
    /\ UNCHANGED <<prev, call>>

\* self.write_reg(spi_registers.usr(), old_spi_usr, None)?
SpiRestoreUsr ==
    SpiWrite("spi_rs_usr", "usr", spi.old_usr, "spi_rs_usr2", spi)

\* self.write_reg(spi_registers.usr2(), old_spi_usr2, None)?; Ok(result)
SpiRestoreUsr2 ==
    SpiWrite("spi_rs_usr2", "usr2", spi.old_usr2, "flash_detect",
             [spi EXCEPT !.restored = TRUE, !.ret = Ok])

\* flash_detect after spi_command returned, and spi_autodetect's use of it
flash_detect ==
    /\ pc = "flash_detect"
    /\ LET size == FlashSizeFrom(HighOctet(spi.value))
       IN  IF ~size.ok
           THEN ConnectFails(size.err) /\ UNCHANGED <<flash_size, spi_params, cand>>
           ELSE /\ flash_size' = size.size
                /\ IF size.size # FlashRetry
                   THEN \* flash detect successful, save these spi params
                        /\ spi_params' = TrySpi(cand)
                        /\ pc' = "connect_baud"
                        /\ UNCHANGED <<cand, result>>
                   ELSE IF cand < Len(TRY_SPI_PARAMS)
                        THEN /\ cand' = cand + 1
                             /\ pc' = "enable_flash"
                             /\ UNCHANGED <<spi_params, result>>
                        ELSE \* none of the spi parameters were successful
                             /\ ConnectFails(UnsupportedFlash(FlashRetry))
                             /\ UNCHANGED <<spi_params, cand>>
    /\ UNCHANGED <<op, chip, baud, log, attempt, cnt, storm, spi, speed, loading>>
    /\ UNCHANGED <<prev, call>>

(***************************************************************************)
(* The baud change, and the return of connect.                             *)
(***************************************************************************)
\* the speeds a caller asks for
Speeds == {Baud115200, 921600}

\* a public operation of the Flasher returns r; connect hands out the
\* Flasher only when it returns Ok
Return(r) ==
    /\ result' = r
    /\ pc' = IF op = "connect" /\ r # Ok THEN "failed" ELSE "idle"

\* the tail of connect: `if let Some(b) = speed { match flasher.chip ...`
ConnectBaud ==
    /\ pc = "connect_baud"
    /\ \E sp \in {NoSpeed} \cup Speeds :
          /\ speed' = sp
          /\ IF sp # NoSpeed /\ chip # "Esp8266" /\ sp > Baud115200
             THEN pc' = "change_baud" /\ UNCHANGED result
             ELSE Return(Ok)
    /\ UNCHANGED <<op, flasher, log, attempt, cnt, storm, cand, spi, loading>>
    /\ UNCHANGED <<prev, call>>

\* CHANGE_BAUD with (new_speed, old_speed = 0)
ChangeBaudCmd(sp) == PlainCmd(ChangeBaud, <<sp, 0>>)

\* change_baud(speed): CHANGE_BAUD(new, 0), set_baud, sleep, flush
change_baud ==
    /\ pc = "change_baud"
    /\ \/ \E e \in CommandErrors :
             /\ log' = Append(log, Answered(ChangeBaudCmd(speed), e))
             /\ Return(e) /\ UNCHANGED baud
       \/ \* self.connection.set_baud(speed)? fails
          /\ log' = Append(log, Answered(ChangeBaudCmd(speed), Ok))
          /\ Return(TransportIo) /\ UNCHANGED baud
       \/ \* self.connection.flush()? fails or succeeds
          /\ log' = Append(log, Answered(ChangeBaudCmd(speed), Ok))
          /\ \E r \in {Ok, TransportIo} : Return(r) /\ baud' = speed
    /\ UNCHANGED <<op, chip, flash_size, spi_params, attempt, cnt, storm, cand,
                   spi, speed, loading>>
    /\ UNCHANGED <<prev, call>>

\* the opcode of the last command of s when no response was read for it
\* (write_command), nothing when one was read; p when s holds no command
Unread(s, p) ==
    LET cmds == {k \in 1..Len(s) : s[k].ev = "cmd"}
    IN  IF cmds = {} THEN p
        ELSE LET last == CHOOSE k \in cmds : \A j \in cmds : j <= k
             IN  IF s[last].resp = NotRead THEN {s[last].op} ELSE {}

\* a caller invokes change_baud on the Flasher it holds
CallChangeBaud ==
    /\ pc = "idle"
    /\ \E sp \in Speeds : speed' = sp
    /\ op' = "change_baud"
    /\ pc' = "change_baud"
    /\ log' = <<>>
    /\ result' = NoResult
    /\ attempt' = 0 /\ cnt' = 0 /\ storm' = StormInit /\ cand' = 1 /\ spi' = SpiInit
    /\ elf' = NoElf /\ seg' = 1 /\ blk' = 0
    /\ UNCHANGED flasher
    /\ prev' = Unread(log, prev)
    /\ UNCHANGED call

(***************************************************************************)
(* Segment streaming: begin_command, block_command, the finishes.          *)
(***************************************************************************)
\* a block_command whose checksum stops at the end of the data
BlockCmdDataChecksum(command, data, padding, padding_byte, sequence) ==
    Cmd(command, <<Len(data) + padding, sequence, 0, 0>>, "", NoWord,
        Len(data), padding, padding_byte, checksum(data, CHECKSUM_INIT))

\* block_command: BlockParams (size, sequence, 0, 0), the data, the padding,
\* and the checksum of the data followed by the padding bytes
BlockCmd(command, data, padding, padding_byte, sequence) ==
    LET check == checksum(data, CHECKSUM_INIT)
        padded == checksum([j \in 1..padding |-> padding_byte], check)
    IN  Cmd(command, <<Len(data) + padding, sequence, 0, 0>>, "", NoWord,
            Len(data), padding, padding_byte, padded)

\* mem_finish: EntryParams (no_entry, entry)
MemEndCmd(entry) == PlainCmd(MemEnd, <<IF entry = 0 THEN 1 ELSE 0, entry>>)

\* a FLASH_END whose payload byte is reboot as u8
FlashEndCmdPlain(reboot) == PlainCmd(FlashEnd, <<IF reboot THEN 1 ELSE 0>>)

\* flash_finish: the one payload byte (!reboot) as u8
FlashEndCmd(reboot) == PlainCmd(FlashEnd, <<IF reboot THEN 0 ELSE 1>>)

\* the error of an Err item of get_flash_segments
SegmentError == Res("SegmentError", 0)

\* after the last chunk of segment `seg`: the next segment, or the finish
NextSegment(segments, begin, finish) ==
    /\ blk' = 0
    /\ IF seg < Len(segments)
       THEN seg' = seg + 1 /\ pc' = begin
       ELSE seg' = seg /\ pc' = finish

\* a load that goes on to its finish when a BEGIN or DATA command fails
CommandFailsThenFinish(cmd, e) ==
    /\ log' = Append(log, Answered(cmd, e))
    /\ pc' = IF op = "load_elf_to_ram" THEN "mem_finish" ELSE "flash_finish"
    /\ UNCHANGED <<result, seg, blk>>

\* the `?` after begin_command / block_command in the load loops: the
\* command's error is the load's result
CommandFails(cmd, e) ==
    /\ log' = Append(log, Answered(cmd, e))
    /\ Return(e)
    /\ UNCHANGED <<seg, blk>>

\* load_elf_to_ram is called: from_data, the rom_segments test
CallLoadRam ==
    /\ pc = "idle"
    /\ op' = "load_elf_to_ram"
    /\ log' = <<>>
    /\ attempt' = 0 /\ cnt' = 0 /\ storm' = StormInit /\ cand' = 1 /\ spi' = SpiInit
    /\ speed' = NoSpeed /\ seg' = 1 /\ blk' = 0
    /\ \E e \in Elfs :
          /\ elf' = e
          /\ IF ~e.valid THEN pc' = "idle" /\ result' = InvalidElf
             ELSE IF e.rom THEN pc' = "idle" /\ result' = ElfNotRamLoadable
             ELSE /\ result' = NoResult
                  /\ pc' = IF e.ram = <<>> THEN "mem_finish" ELSE "ram_begin"
    /\ UNCHANGED flasher
    /\ prev' = Unread(log, prev)
    /\ UNCHANGED call

\* `let padding = 4 - segment.data.len() % 4`
RamPadding(n) == 4 - (n % 4)

\* `let block_count = (len + padding + MAX_RAM_BLOCK_SIZE - 1) / MAX_RAM_BLOCK_SIZE`
RamBlockCount(n) == (n + RamPadding(n) + MAX_RAM_BLOCK_SIZE - 1) \div MAX_RAM_BLOCK_SIZE

\* `let block_padding = if i == block_count - 1 { padding } else { 0 }`
RamBlockPadding(n, i) == IF i = RamBlockCount(n) - 1 THEN RamPadding(n) ELSE 0

\* the MEM_BEGIN of the segment at hand
RamBeginSegment ==
    /\ pc = "ram_begin"
    /\ LET s == elf.ram[seg]
           cmd == BeginCmd(MemBegin, s.len, RamBlockCount(s.len),
                           MAX_RAM_BLOCK_SIZE, s.addr)
       IN  /\ \/ \E e \in CommandErrors : CommandFails(cmd, e)
              \/ /\ log' = Append(log, Answered(cmd, Ok))
                 /\ UNCHANGED result
                 /\ IF ChunkCount(s.len, MAX_RAM_BLOCK_SIZE) = 0
                    THEN NextSegment(elf.ram, "ram_begin", "mem_finish")
                    ELSE pc' = "ram_data" /\ blk' = 0 /\ seg' = seg
    /\ UNCHANGED <<op, flasher, attempt, cnt, storm, cand, spi, speed, elf>>
    /\ UNCHANGED <<prev, call>>

\* one MEM_DATA: chunk `blk` of the segment
RamDataBlock ==
    /\ pc = "ram_data"
    /\ LET s == elf.ram[seg]
           block == ChunkData(s, MAX_RAM_BLOCK_SIZE, blk)
       IN  \E cmd \in {BlockCmd(MemData, block, RamBlockPadding(s.len, blk), 0, blk)} :
              \/ \E e \in CommandErrors : CommandFails(cmd, e)
              \/ /\ log' = Append(log, Answered(cmd, Ok))
                 /\ UNCHANGED result
                 /\ IF blk + 1 < ChunkCount(s.len, MAX_RAM_BLOCK_SIZE)
                    THEN pc' = "ram_data" /\ blk' = blk + 1 /\ seg' = seg
                    ELSE NextSegment(elf.ram, "ram_begin", "mem_finish")
    /\ UNCHANGED <<op, flasher, attempt, cnt, storm, cand, spi, speed, elf>>
    /\ UNCHANGED <<prev, call>>

\* a mem_finish that puts the dummy variant back
mem_finishResetsChip ==
    /\ pc = "mem_finish"
    /\ \/ log' = Append(log, Answered(MemEndCmd(elf.entry), NotRead)) /\ Return(Ok)
       \/ log' = Append(log, Answered(MemEndCmd(elf.entry), TransportIo))
             /\ Return(TransportIo)
    /\ chip' = "Esp8266"
    /\ UNCHANGED <<op, flash_size, spi_params, baud, attempt, cnt, storm, cand, spi,
                   speed, loading>>
    /\ UNCHANGED <<prev, call>>

\* self.mem_finish(image.entry())?: MEM_END is written, no response is read
mem_finish ==
    /\ pc = "mem_finish"
    /\ \/ log' = Append(log, Answered(MemEndCmd(elf.entry), NotRead)) /\ Return(Ok)
       \/ log' = Append(log, Answered(MemEndCmd(elf.entry), TransportIo))
             /\ Return(TransportIo)
    /\ UNCHANGED <<op, flasher, attempt, cnt, storm, cand, spi, speed, loading>>
    /\ UNCHANGED <<prev, call>>

\* load_elf_to_flash is called
CallLoadFlash ==
    /\ pc = "idle"
    /\ op' = "load_elf_to_flash"
    /\ pc' = "enable_flash"
    /\ log' = <<>>
    /\ result' = NoResult
    /\ attempt' = 0 /\ cnt' = 0 /\ storm' = StormInit /\ cand' = 1 /\ spi' = SpiInit
    /\ speed' = NoSpeed /\ seg' = 1 /\ blk' = 0
    /\ \E e \in Elfs : elf' = e
    /\ UNCHANGED flasher
    /\ prev' = Unread(log, prev)
    /\ UNCHANGED call

\* self.enable_flash(self.spi_params)?, then from_data
FlashEnable ==
    /\ pc = "enable_flash"
    /\ op = "load_elf_to_flash"
    /\ \/ \E e \in CommandErrors :
             /\ log' = Append(log, Answered(EnableFlashCmd(spi_params), e))
             /\ Return(e)
       \/ /\ log' = Append(log, Answered(EnableFlashCmd(spi_params), Ok))
          /\ IF ~elf.valid THEN Return(InvalidElf)
             ELSE /\ UNCHANGED result
                  /\ pc' = IF elf.flash = <<>> THEN "flash_finish" ELSE "flash_begin"
    /\ UNCHANGED <<op, flasher, attempt, cnt, storm, cand, spi, speed, loading>>
    /\ UNCHANGED <<prev, call>>

\* `let block_count = (len + FLASH_WRITE_SIZE - 1) / FLASH_WRITE_SIZE`
FlashBlockCount(n) == (n + FLASH_WRITE_SIZE - 1) \div FLASH_WRITE_SIZE

\* `let erase_size = match self.chip { Esp8266 => get_erase_size(..), _ => len }`
EraseSize(c, addr, n) == IF c = "Esp8266" THEN get_erase_size(addr, n) ELSE n

\* a FLASH_DATA that sends a short last chunk as it is
FlashBlockUnpadded(n) == 0

\* `let block_padding = FLASH_WRITE_SIZE - block.len()`
FlashBlockPadding(n) == FLASH_WRITE_SIZE - n

\* `let segment = segment?` and the FLASH_BEGIN of the segment
FlashBeginSegment ==
    /\ pc = "flash_begin"
    /\ LET s == elf.flash[seg]
           cmd == BeginCmd(FlashBegin, EraseSize(chip, s.addr, s.len),
                           FlashBlockCount(s.len), FLASH_WRITE_SIZE, s.addr)
       IN  IF ~s.ok
           THEN Return(SegmentError) /\ UNCHANGED <<log, seg, blk>>
           ELSE /\ \/ \E e \in CommandErrors : CommandFails(cmd, e)
                   \/ /\ log' = Append(log, Answered(cmd, Ok))
                      /\ UNCHANGED result
                      /\ IF ChunkCount(s.len, FLASH_WRITE_SIZE) = 0
                         THEN NextSegment(elf.flash, "flash_begin", "flash_finish")
                         ELSE pc' = "flash_data" /\ blk' = 0 /\ seg' = seg
    /\ UNCHANGED <<op, flasher, attempt, cnt, storm, cand, spi, speed, elf>>
    /\ UNCHANGED <<prev, call>>

\* one FLASH_DATA: chunk `blk` of the segment, padded with 0xff
FlashDataBlock ==
    /\ pc = "flash_data"
    /\ LET s == elf.flash[seg]
           block == ChunkData(s, FLASH_WRITE_SIZE, blk)
       IN  \E cmd \in {BlockCmd(FlashData, block, FlashBlockPadding(Len(block)),
                                255, blk)} :
              \/ \E e \in CommandErrors : CommandFails(cmd, e)
              \/ /\ log' = Append(log, Answered(cmd, Ok))
                 /\ UNCHANGED result
                 /\ IF blk + 1 < ChunkCount(s.len, FLASH_WRITE_SIZE)
                    THEN pc' = "flash_data" /\ blk' = blk + 1 /\ seg' = seg
                    ELSE NextSegment(elf.flash, "flash_begin", "flash_finish")
    /\ UNCHANGED <<op, flasher, attempt, cnt, storm, cand, spi, speed, elf>>
    /\ UNCHANGED <<prev, call>>

\* self.flash_finish(false)?: FLASH_END is written, no response is read
flash_finish ==
    /\ pc = "flash_finish"
    /\ \/ /\ log' = Append(log, Answered(FlashEndCmd(FALSE), NotRead))
          /\ pc' = "flash_reset" /\ UNCHANGED result
       \/ /\ log' = Append(log, Answered(FlashEndCmd(FALSE), TransportIo))
          /\ Return(TransportIo)
    /\ UNCHANGED <<op, flasher, attempt, cnt, storm, cand, spi, speed, loading>>
    /\ UNCHANGED <<prev, call>>

\* self.connection.reset()?; Ok(())
FlashReset ==
    /\ pc = "flash_reset"
    /\ \E r \in {Ok, TransportIo} :
          log' = Append(log, Answered(Line("reset"), r)) /\ Return(r)
    /\ UNCHANGED <<op, flasher, attempt, cnt, storm, cand, spi, speed, loading>>
    /\ UNCHANGED <<prev, call>>

Next ==
    \/ ResetToFlash
    \/ StormFlush
    \/ StormGiveUp
    \/ SyncWrite
    \/ SyncRead
    \/ SyncDrain
    \/ SetTimeout
    \/ chip_detect
    \/ AutodetectEnable
    \/ SpiReadUsr
    \/ SpiReadUsr2
    \/ SpiWriteUsr
    \/ SpiWriteUsr2
    \/ SpiWriteLength
    \/ SpiWriteW0
    \/ SpiStart
    \/ SpiPoll
    \/ SpiReadW0
    \/ SpiRestoreUsr
    \/ SpiRestoreUsr2
    \/ flash_detect
    \/ ConnectBaud
    \/ change_baud
    \/ CallChangeBaud
    \/ CallLoadRam
    \/ RamBeginSegment
    \/ RamDataBlock
    \/ mem_finish
    \/ CallLoadFlash
    \/ FlashEnable
    \/ FlashBeginSegment
    \/ FlashDataBlock
    \/ flash_finish
    \/ FlashReset

Spec == Init /\ [][Next]_vars

(***************************************************************************)
(* The pure functions on their own: each step applies one of them to       *)
(* arguments of a small set and records the value.                         *)
(***************************************************************************)
EraseOffsets == {0, 4096, 32768, 61440, 65536, 126976}
EraseLengths == {0, 1, 4096, 4097, 16384, 65536, 69632, 131072}

SampleBytes == {0, 1, 85, 239, 255}
SampleData == UNION {[1..n -> SampleBytes] : n \in 0..MaxDataLen}

SampleSpiParams ==
    {SpiAttachParams(clk, q, d, hd, cs) :
        clk \in {0, 6, 63}, q \in {0, 17, 63}, d \in {0, 8, 63},
        hd \in {0, 11, 63}, cs \in {0, 16, 63}}

Applied(fn, args, ret) ==
    /\ call' = [fn |-> fn, args |-> args, ret |-> ret]
    /\ UNCHANGED <<pc, op, flasher, log, result, attempt, cnt, storm, cand, spi,
                   speed, loading, prev>>

ApplyGetEraseSize ==
    \E offset \in EraseOffsets, size \in EraseLengths :
        Applied("get_erase_size", <<offset, size>>, get_erase_size(offset, size))

\* the checksum word block_command hands to Connection::command
ApplyBlockChecksum ==
    \E data \in SampleData, padding \in 0..MaxPadding, padding_byte \in SampleBytes :
        Applied("block_command", <<data, padding, padding_byte>>,
                BlockCmd(MemData, data, padding, padding_byte, 0).check)

ApplyEncode ==
    \E p \in SampleSpiParams : Applied("encode", <<p>>, encode(p))

PureNext ==
    \/ ApplyGetEraseSize
    \/ ApplyBlockChecksum
    \/ ApplyEncode

PureSpec == Init /\ [][PureNext]_vars

(***************************************************************************)
(* Properties.                                                             *)
(***************************************************************************)
IsSync(e) == IsCmd(e, Sync)
IsResetToFlash(e) == e.ev = "reset_to_flash"

\* the SYNC commands and reset_to_flash pulses written so far
SyncSends == Count(log, IsSync)
ResetsToFlash == Count(log, IsResetToFlash)

\* start_connection is running or has just returned
InStorm ==
    \/ pc \in {"start_connection", "sc_flush", "sync_write", "sync_read",
               "sync_drain", "set_timeout"}
    \/ pc = "failed" /\ storm.ret # NoResult

\* start_connection returned, and not because the transport itself failed
StormAnswered == storm.ret \notin {NoResult, TransportIo}

\* C1: start_connection sends SYNC at most ten times, returns Ok only if an
\* attempt received a SYNC response with status 0, and fails with
\* ConnectionFailed exactly when no attempt received one.
C1_SyncContract ==
    /\ SyncSends <= SyncAttempts
    /\ storm.ret = Ok => storm.syncSeen
    /\ StormAnswered => (storm.ret = ConnectionFailed <=> ~storm.syncSeen)

\* C2: a status==1 SYNC frame received during the storm makes
\* start_connection return RomError(error), the frame's error code.
C2_RomErrorPropagates ==
    (StormAnswered /\ storm.romErr # 0) => storm.ret = RomError(storm.romErr)

\* C3: when every failed attempt failed with Timeout and attempt k succeeds,
\* start_connection returns Ok after one reset_to_flash, k flushes and k SYNC
\* sends; and no SYNC is sent before the flush of its attempt.
C3_SyncOnAttemptK ==
    InStorm =>
        /\ SyncSends <= storm.flushes
        /\ pc = "sync_read" => SyncSends = attempt + 1
        /\ (storm.ret = Ok /\ storm.onlyTimeouts) =>
              /\ attempt + 1 <= SyncAttempts
              /\ ResetsToFlash = 1
              /\ storm.flushes = attempt + 1
              /\ SyncSends = attempt + 1

\* the spec's scenario: Timeout twice, then a SYNC response and a stale frame
C3_Witness ==
    /\ storm.ret = Ok
    /\ storm.onlyTimeouts
    /\ storm.syncSeen
    /\ attempt = 2

\* the log positions that satisfy P, in order
RECURSIVE Positions(_, _, _)
Positions(s, P(_), k) ==
    IF k > Len(s) THEN <<>>
    ELSE (IF P(s[k]) THEN <<k>> ELSE <<>>) \o Positions(s, P, k + 1)

\* the position of the first command after the SYNCs (Len(log) + 1: none yet)
AfterSync ==
    IF \E k \in 2..Len(log) : ~IsSync(log[k])
    THEN CHOOSE k \in 2..Len(log) :
            ~IsSync(log[k]) /\ \A j \in 2..(k - 1) : IsSync(log[j])
    ELSE Len(log) + 1

IsMagicRead(e) == IsCmd(e, ReadReg) /\ e.params = <<CHIP_DETECT_MAGIC_REG_ADDR>>
IsEnable(e) == IsCmd(e, SpiAttach) \/ IsCmd(e, FlashBegin)
IsChangeBaud(e) == IsCmd(e, ChangeBaud)

\* the commands of spi_autodetect
IsAutodetect(e) ==
    IsEnable(e) \/ ((IsCmd(e, ReadReg) \/ IsCmd(e, WriteReg)) /\ e.reg # "")

\* C4: connect pulses reset_to_flash first, then sends its SYNCs, then reads
\* the magic register as the first command after them, then runs
\* spi_autodetect starting with the next command, then at most one CHANGE_BAUD
\* as the last command; when the magic word matches no variant it fails with
\* UnrecognizedChip and the magic read stays the last command written.
C4_ConnectOrder ==
    op = "connect" =>
        LET p == AfterSync
            n == Len(log)
        IN  /\ n >= 1 => IsResetToFlash(log[1])
            /\ \A k \in 2..n : log[k].ev = "cmd"
            /\ \A k \in 2..n : IsSync(log[k]) => k < p
            /\ p <= n => /\ p > 2
                         /\ IsMagicRead(log[p])
            /\ \A k \in (p + 1)..n :
                  /\ ~IsMagicRead(log[k])
                  /\ IsAutodetect(log[k]) \/ (IsChangeBaud(log[k]) /\ k = n)
            /\ p + 1 <= n => IsEnable(log[p + 1])
            /\ \A k \in 2..n : IsChangeBaud(log[k]) =>
                  /\ IsCmd(log[k - 1], WriteReg) /\ log[k - 1].reg = "usr2"
                  /\ log[k - 1].resp = Ok
            /\ (p <= n /\ log[p].resp = Ok /\ from_magic(log[p].magic) = "None") =>
                  /\ n = p
                  /\ pc = "failed"
                  /\ result = UnrecognizedChip
            /\ result = UnrecognizedChip =>
                  /\ p = n
                  /\ from_magic(log[p].magic) = "None"
                  /\ \A k \in 1..n : ~IsEnable(log[k]) /\ ~IsCmd(log[k], WriteReg)
                                     /\ ~IsChangeBaud(log[k])

\* a connect that went all the way: magic read, autodetect, baud change
C4_Witness ==
    /\ op = "connect"
    /\ pc = "idle"
    /\ result = Ok
    /\ IsChangeBaud(log[Len(log)])
    /\ IsMagicRead(log[AfterSync])
    /\ SyncSends = 2

IsIdRead(e) == IsCmd(e, ReadReg) /\ e.reg = "w0" /\ e.resp = Ok

\* where the candidates were attached, and where their flash ids were read
Enables == Positions(log, IsEnable, 1)
IdReads == Positions(log, IsIdRead, 1)

\* the size byte flash_detect takes from the flash id read at position k
SizeByteAt(k) == log[k].rval.hi % 256
SizeByte(j) == SizeByteAt(IdReads[j])

\* spi_autodetect returned Ok
Autodetected == op = "connect" /\ pc \in {"connect_baud", "change_baud", "idle"}

\* C5: spi_autodetect attaches the candidates in list order, each followed
\* by its flash_detect; a next candidate is attached only after the one
\* before read 0xFF; when it returns Ok the last candidate attached is the
\* first whose size byte is not 0xFF, spi_params is that candidate and
\* flash_size the decoded byte; when every candidate read 0xFF it fails with
\* UnsupportedFlash(0xFF).
C5_Autodetect ==
    op = "connect" =>
        LET en == Enables
            ids == IdReads
            e == Len(en)
            d == Len(ids)
        IN  /\ e <= Len(TRY_SPI_PARAMS)
            /\ d <= e /\ e <= d + 1
            /\ \A j \in 1..e :
                  /\ log[en[j]].op = (IF chip = "Esp8266" THEN FlashBegin ELSE SpiAttach)
                  /\ chip # "Esp8266" => log[en[j]].params = encode(TRY_SPI_PARAMS[j])
                  /\ j <= d => en[j] < ids[j]
                  /\ j > 1 => /\ ids[j - 1] < en[j]
                              /\ SizeByteAt(ids[j - 1]) = FlashRetry
            /\ Autodetected =>
                  /\ d = e /\ d >= 1
                  /\ SizeByteAt(ids[d]) # FlashRetry
                  /\ flash_size = SizeByteAt(ids[d])
                  /\ flash_size \in FlashSizes
                  /\ spi_params = TRY_SPI_PARAMS[d]
            /\ result = UnsupportedFlash(FlashRetry) =>
                  /\ d = Len(TRY_SPI_PARAMS)
                  /\ \A j \in 1..d : SizeByteAt(ids[j]) = FlashRetry
            /\ (d = Len(TRY_SPI_PARAMS) /\ SizeByteAt(ids[d]) = FlashRetry
                    /\ pc = "failed") =>
                  result \in {UnsupportedFlash(FlashRetry)} \cup CommandErrors

\* the first candidate read 0xFF, the second 0x16
C5_Witness ==
    /\ op = "connect"
    /\ pc = "connect_baud"
    /\ Len(IdReads) = 2
    /\ SizeByte(1) = FlashRetry
    /\ SizeByte(2) = 22
    /\ flash_size = Flash4Mb
    /\ spi_params = SpiEsp32PicoD4
    /\ chip = "Esp32"

IsSnapshot(e) == IsCmd(e, ReadReg) /\ e.reg = "usr2" /\ e.resp = Ok
Snapshots == Positions(log, IsSnapshot, 1)

\* C6: whenever spi_command returns after it overwrote usr and usr2, with a
\* value or with an error, it has written the snapshot back: WRITE_REG of
\* usr with the old usr, then WRITE_REG of usr2 with the old usr2.
C6_SpiRestores ==
    (spi.ret # NoResult /\ spi.overwritten) =>
        \E k \in (Snapshots[Len(Snapshots)] + 1)..(Len(log) - 1) :
            /\ IsCmd(log[k], WriteReg) /\ log[k].reg = "usr"
            /\ log[k].val = spi.old_usr /\ log[k].resp = Ok
            /\ IsCmd(log[k + 1], WriteReg) /\ log[k + 1].reg = "usr2"
            /\ log[k + 1].val = spi.old_usr2 /\ log[k + 1].resp = Ok

\* a / b rounded up
CeilDiv(a, b) == IF a % b = 0 THEN a \div b ELSE (a \div b) + 1

\* what a request of a load is expected to be: a BEGIN with its four words,
\* or a DATA with its sequence number, data length, padding and checksum
ExpectBegin(o, words) ==
    [op |-> o, begin |-> words, seq |-> 0, dlen |-> 0, plen |-> 0, pbyte |-> 0,
     check |-> 0]
ExpectData(o, sq, dl, pl, pb, chk) ==
    [op |-> o, begin |-> <<>>, seq |-> sq, dlen |-> dl, plen |-> pl, pbyte |-> pb,
     check |-> chk]

IsBegin(e) == IsCmd(e, MemBegin) \/ IsCmd(e, FlashBegin)
IsData(e) == IsCmd(e, MemData) \/ IsCmd(e, FlashData)
IsEnd(e) == IsCmd(e, MemEnd) \/ IsCmd(e, FlashEnd)
IsReset(e) == e.ev = "reset"

\* log entry e is the request x
Matches(e, x) ==
    /\ IsCmd(e, x.op)
    /\ IsBegin(e) => SubSeq(e.params, 1, 4) = x.begin
    /\ IsData(e) => /\ e.params[2] = x.seq
                    /\ e.dlen = x.dlen
                    /\ e.plen = x.plen
                    /\ e.pbyte = x.pbyte

\* the requests of the segments from..Len(segs), each by ExpectSeg
RECURSIVE ExpectAll(_, _, _)
ExpectAll(segs, ExpectSeg(_), from) ==
    IF from > Len(segs) \/ ~segs[from].ok THEN <<>>
    ELSE ExpectSeg(segs[from]) \o ExpectAll(segs, ExpectSeg, from + 1)

\* the padding of a RAM segment of length n: (4 - n % 4) % 4
PadToWord(n) == (4 - (n % 4)) % 4

\* MEM_BEGIN and the MEM_DATAs of one RAM segment
ExpectRamSegment(s) ==
    LET chunks == CeilDiv(s.len, MAX_RAM_BLOCK_SIZE)
    IN  <<ExpectBegin(MemBegin,
                      <<s.len, CeilDiv(s.len + PadToWord(s.len), MAX_RAM_BLOCK_SIZE),
                        MAX_RAM_BLOCK_SIZE, s.addr>>)>>
        \o [k \in 1..chunks |->
               ExpectData(MemData, k - 1,
                          IF k < chunks THEN MAX_RAM_BLOCK_SIZE
                                        ELSE s.len - (chunks - 1) * MAX_RAM_BLOCK_SIZE,
                          IF k < chunks THEN 0 ELSE PadToWord(s.len), 0, 0)]

\* C7: load_elf_to_ram sends, for every RAM segment of length len,
\* MEM_BEGIN(len, ceil((len + padding) / 0x1800), 0x1800, addr) with
\* padding = (4 - len % 4) % 4, then one MEM_DATA per 0x1800-byte chunk with
\* sequence = chunk index and padding byte 0, the padding on the last chunk
\* only (none when len is a multiple of 4).
C7_RamBlocks ==
    op = "load_elf_to_ram" =>
        LET want == ExpectAll(elf.ram, ExpectRamSegment, 1)
        IN  /\ \A k \in 1..Len(log) :
                  ~IsEnd(log[k]) => k <= Len(want) /\ Matches(log[k], want[k])
            /\ (pc = "idle" /\ result = Ok) => Len(log) = Len(want) + 1

\* the checksum of dl bytes b followed by pl bytes 0xFF, from the seed 0xEF
FillChecksum(b, dl, pl) ==
    Xor8(Xor8(CHECKSUM_INIT, IF dl % 2 = 1 THEN b ELSE 0), IF pl % 2 = 1 THEN 255 ELSE 0)

\* FLASH_BEGIN and the FLASH_DATAs of one flash segment
ExpectFlashSegment(s) ==
    LET chunks == CeilDiv(s.len, FLASH_WRITE_SIZE)
        last == s.len - (chunks - 1) * FLASH_WRITE_SIZE
    IN  <<ExpectBegin(FlashBegin,
                      <<IF chip = "Esp8266" THEN get_erase_size(s.addr, s.len) ELSE s.len,
                        chunks, FLASH_WRITE_SIZE, s.addr>>)>>
        \o [k \in 1..chunks |->
               LET dl == IF k < chunks THEN FLASH_WRITE_SIZE ELSE last
               IN  ExpectData(FlashData, k - 1, dl, FLASH_WRITE_SIZE - dl, 255,
                              FillChecksum(s.fill, dl, FLASH_WRITE_SIZE - dl))]

\* C8: after enabling the flash, load_elf_to_flash sends, for every flash
\* segment, FLASH_BEGIN(erase_size, ceil(len / 0x400), 0x400, addr), then
\* one FLASH_DATA per 0x400-byte chunk with sequence = chunk index; every
\* FLASH_DATA declares 0x400 bytes and carries them, a short last chunk
\* filled up with 0xFF, and its checksum word covers data and padding.
C8_FlashBlocks ==
    op = "load_elf_to_flash" =>
        LET want == ExpectAll(elf.flash, ExpectFlashSegment, 1)
        IN  /\ \A k \in 2..Len(log) :
                  (~IsEnd(log[k]) /\ ~IsReset(log[k])) =>
                      /\ k - 1 <= Len(want)
                      /\ Matches(log[k], want[k - 1])
                      /\ IsData(log[k]) =>
                            /\ log[k].params[1] = FLASH_WRITE_SIZE
                            /\ log[k].dlen + log[k].plen = FLASH_WRITE_SIZE
                            /\ log[k].check = want[k - 1].check
            /\ (pc = "idle" /\ result = Ok) => Len(log) = Len(want) + 3

\* a load that wrote a FLASH_DATA with one data byte and 1023 bytes of 0xFF
C8_Witness ==
    /\ op = "load_elf_to_flash"
    /\ pc = "idle"
    /\ result = Ok
    /\ \E k \in 1..Len(log) :
          /\ IsCmd(log[k], FlashData)
          /\ log[k].params[2] = 1
          /\ log[k].dlen = 1
          /\ log[k].plen = 1023

\* C9: a load_elf_to_flash that returns Ok has written FLASH_END with the
\* one payload byte 0x01 as its last command, after the FLASH_BEGINs and
\* FLASH_DATAs of all segments, and has then pulsed reset once; nothing is
\* written after the reset.
C9_FlashEndThenReset ==
    op = "load_elf_to_flash" =>
        LET n == Len(log)
        IN  /\ \A k \in 1..n : IsReset(log[k]) => k = n /\ pc = "idle"
            /\ \A k \in 1..n : IsEnd(log[k]) => k >= n - 1
            /\ (pc = "idle" /\ result = Ok) =>
                  /\ n >= 3
                  /\ IsReset(log[n]) /\ log[n].resp = Ok
                  /\ IsCmd(log[n - 1], FlashEnd)
                  /\ log[n - 1].params = <<1>>
                  /\ log[n - 1].dlen = 0 /\ log[n - 1].plen = 0
                  /\ Count(log, IsReset) = 1
                  /\ Count(log, IsEnd) = 1
                  /\ \A k \in 2..(n - 2) : IsBegin(log[k]) \/ IsData(log[k])
                  /\ Count(SubSeq(log, 2, n), IsBegin) = Len(elf.flash)

\* a load of two flash segments that returned Ok
C9_Witness ==
    /\ op = "load_elf_to_flash"
    /\ pc = "idle"
    /\ result = Ok
    /\ Len(elf.flash) = 2
    /\ IsReset(log[Len(log)])
    /\ IsCmd(log[Len(log) - 1], FlashEnd)

\* the streaming command at position k of the log failed
FailedAt(k) == (IsBegin(log[k]) \/ IsData(log[k])) /\ log[k].resp \in CommandErrors

\* C10: when a BEGIN or DATA command of load_elf_to_ram or load_elf_to_flash
\* fails, the load returns that error, the failed command is the last one
\* written, every command before it succeeded and was written once (a DATA
\* follows its BEGIN with sequence 0 or the DATA before it with the next
\* sequence number), and no MEM_END, FLASH_END or reset follows.
C10_NoRetry ==
    op \in {"load_elf_to_ram", "load_elf_to_flash"} =>
        LET n == Len(log)
        IN  /\ \A k \in 1..n : FailedAt(k) =>
                  /\ k = n
                  /\ pc = "idle"
                  /\ result = log[k].resp
                  /\ \A j \in 1..n : ~IsEnd(log[j]) /\ ~IsReset(log[j])
                  /\ \A j \in 1..(k - 1) : log[j].resp = Ok
            /\ \A k \in 2..n : IsData(log[k]) =>
                  \/ IsBegin(log[k - 1]) /\ log[k].params[2] = 0
                  \/ IsData(log[k - 1]) /\ log[k].params[2] = log[k - 1].params[2] + 1
            /\ \A j, k \in 2..n : (j < k /\ IsBegin(log[j]) /\ IsBegin(log[k])) =>
                  log[j].params[4] # log[k].params[4]

\* the second FLASH_DATA of a segment failed with Timeout
C10_Witness ==
    /\ op = "load_elf_to_flash"
    /\ pc = "idle"
    /\ result = Timeout
    /\ Len(log) >= 4
    /\ IsCmd(log[Len(log)], FlashData)
    /\ log[Len(log)].params[2] = 1
    /\ log[Len(log)].resp = Timeout

\* the position of the last command written before position k (0: none)
CommandBefore(k) ==
    LET cmds == {j \in 1..(k - 1) : log[j].ev = "cmd"}
    IN  IF cmds = {} THEN 0 ELSE CHOOSE j \in cmds : \A i \in cmds : i <= j

\* C11: over any sequence of operations, when a command other than SYNC is
\* written, a response read was attempted for the command written before it
\* (SYNC excepted), also when that command is the MEM_END or FLASH_END of an
\* earlier operation.
C11_ReadBeforeNextCommand ==
    \A k \in 1..Len(log) :
        (log[k].ev = "cmd" /\ ~IsSync(log[k])) =>
            LET j == CommandBefore(k)
            IN  IF j = 0 THEN prev = {}
                ELSE IsSync(log[j]) \/ log[j].resp # NotRead

\* C12: CHANGE_BAUD is written, and the transport's baud changed, only on
\* a variant other than the oldest and only for a speed above 115200, in
\* connect as well as in the public change_baud.
C12_BaudChangeGuarded ==
    /\ \A k \in 1..Len(log) :
          IsChangeBaud(log[k]) =>
              /\ chip # "Esp8266"
              /\ log[k].params[1] > Baud115200
    /\ baud # Baud115200 => chip # "Esp8266"

\* the operations a caller invokes on the Flasher connect returned
AfterConnect == {"load_elf_to_ram", "load_elf_to_flash", "change_baud"}

\* C13: once connect has returned the Flasher, no step of load_elf_to_ram,
\* load_elf_to_flash or change_baud, successful or failing, changes chip,
\* flash_size or spi_params.
C13_DetectedFieldsFrozen ==
    [][op' \in AfterConnect =>
          /\ chip' = chip
          /\ flash_size' = flash_size
          /\ spi_params' = spi_params]_vars

\* a third operation on a Flasher whose detected fields are not the dummies
C13_Witness ==
    /\ op = "load_elf_to_ram"
    /\ pc = "idle"
    /\ result = Ok
    /\ prev = {FlashEnd}
    /\ chip = "Esp32c3"
    /\ flash_size = 20
    /\ spi_params = SpiEsp32PicoD4

\* the erase size by the rule of the heuristic
EraseRule(offset, len) ==
    LET sector_count == CeilDiv(len, 4096)
        to_block_end == 16 - ((offset \div 4096) % 16)
        head_sectors == IF to_block_end < sector_count THEN to_block_end
                                                       ELSE sector_count
    IN  IF sector_count < 2 * head_sectors
        THEN ((sector_count + 1) \div 2) * 4096
        ELSE (sector_count - head_sectors) * 4096

ErasedFor(offset, len) == call.fn = "get_erase_size" /\ call.args = <<offset, len>>

\* C14: get_erase_size follows the rule sector_count = ceil(len / 0x1000),
\* head_sectors = min(16 - (offset / 0x1000 mod 16), sector_count), result
\* ((sector_count + 1) / 2) * 0x1000 if sector_count < 2 * head_sectors, else
\* (sector_count - head_sectors) * 0x1000; so get_erase_size(0, 0x1000) is
\* 0x1000, get_erase_size(0, 0x4000) is 0x2000 and
\* get_erase_size(0x1000, 0x10000) is 0x8000.
C14_EraseSizeByRule ==
    /\ call.fn = "get_erase_size" =>
          call.ret = EraseRule(call.args[1], call.args[2])
    /\ ErasedFor(0, 4096) => call.ret = 4096
    /\ ErasedFor(0, 16384) => call.ret = 8192
    /\ ErasedFor(4096, 65536) => call.ret = 32768

\* get_erase_size(0x1000, 0x10000) has been computed
C14_Witness ==
    /\ ErasedFor(4096, 65536)
    /\ call.ret = 32768

\* C14 as stated: get_erase_size(0, 0x1000) is 0x1000, get_erase_size(0,
\* 0x4000) is 0x4000 and get_erase_size(0x1000, 0x10000) is 0xF000, the
\* function being computed by the rule.
C14_EraseSizeAsStated ==
    /\ call.fn = "get_erase_size" =>
          call.ret = EraseRule(call.args[1], call.args[2])
    /\ ErasedFor(0, 4096) => call.ret = 4096
    /\ ErasedFor(0, 16384) => call.ret = 16384
    /\ ErasedFor(4096, 65536) => call.ret = 61440

\* how many of the bytes of d have bit i set
RECURSIVE BitCount(_, _, _)
BitCount(d, i, j) ==
    IF j > Len(d) THEN 0
    ELSE ((d[j] \div Pow2(i)) % 2) + BitCount(d, i, j + 1)

\* 0xEF XOR the bytes of d XOR (p if k is odd), bit by bit
XorWord(d, k, p) ==
    LET bit(i) == (((239 \div Pow2(i)) % 2) + BitCount(d, i, 1)
                    + (k % 2) * ((p \div Pow2(i)) % 2)) % 2
    IN  bit(0) + 2 * bit(1) + 4 * bit(2) + 8 * bit(3) + 16 * bit(4)
          + 32 * bit(5) + 64 * bit(6) + 128 * bit(7)

\* C15: for data D and K padding bytes P, the checksum word block_command
\* sends is 0xEF XOR (xor of the bytes of D) XOR (P if K is odd), a value
\* below 256 (the upper 24 bits of the word are zero).
C15_BlockChecksum ==
    call.fn = "block_command" =>
        /\ call.ret = XorWord(call.args[1], call.args[2], call.args[3])
        /\ call.ret \in 0..255

\* data 01 55 with three padding bytes 0xFF: 0xEF ^ 0x01 ^ 0x55 ^ 0xFF = 0x44
C15_Witness ==
    /\ call.fn = "block_command"
    /\ call.args = <<(<<1, 85>>), 3, 255>>
    /\ call.ret = 68

\* the four bytes of a word below 2^31, lowest first
LeBytes(w) == <<w % 256, (w \div 256) % 256, (w \div 65536) % 256, w \div 16777216>>

\* the word with clk at bit 0, q at bit 6, d at bit 12, cs at bit 18 and
\* hd at bit 24
PackedWord(p) ==
    p.clk + p.q * Pow2(6) + p.d * Pow2(12) + p.cs * Pow2(18) + p.hd * Pow2(24)

\* C16: encode puts clk at bit 0, q at bit 6, d at bit 12, cs at bit 18 and
\* hd at bit 24 of one word and returns its little-endian bytes, five zero
\* bytes for all-zero params; (clk=6, q=17, d=8, hd=11, cs=16) gives the
\* bytes 46 84 40 0B of (11<<24)|(16<<18)|(8<<12)|(17<<6)|6 = 0x0B408446.
C16_SpiEncoding ==
    call.fn = "encode" =>
        LET p == call.args[1]
        IN  /\ PackedWord(p) = 0 => call.ret = <<0, 0, 0, 0, 0>>
            /\ PackedWord(p) # 0 => call.ret = LeBytes(PackedWord(p))
            /\ p = SpiAttachParams(6, 17, 8, 11, 16) => call.ret = <<70, 132, 64, 11>>

\* the second TRY_SPI candidate has been encoded
C16_Witness ==
    /\ call.fn = "encode"
    /\ call.args = <<SpiEsp32PicoD4>>
    /\ call.ret = <<70, 132, 64, 11>>

\* C16 as stated: the same packing, (clk=6, q=17, d=8, hd=11, cs=16) giving
\* the little-endian bytes 46 82 40 0B of 0x0B408246.
C16_SpiEncodingAsStated ==
    call.fn = "encode" =>
        LET p == call.args[1]
        IN  /\ PackedWord(p) = 0 => call.ret = <<0, 0, 0, 0, 0>>
            /\ PackedWord(p) # 0 => call.ret = LeBytes(PackedWord(p))
            /\ p = SpiAttachParams(6, 17, 8, 11, 16) => call.ret = <<70, 130, 64, 11>>

\* C17: a sync attempt that read the SYNC response and returns success has
\* read every frame the ROM sent after that response (n of them, n <= 700),
\* so none is left for the next command.
C17_DrainsAllStale ==
    (storm.ret = Ok /\ storm.stale >= 0) =>
        /\ storm.stale <= SyncDrainLimit
        /\ storm.drained = storm.stale

IsSpiStart(e) == IsCmd(e, WriteReg) /\ e.reg = "cmd" /\ e.resp = Ok
IsPoll(e) == IsCmd(e, ReadReg) /\ e.reg = "usr"
IsBusy(e) == e.resp = Ok /\ TestBit(e.rval, 18)

\* the polls of the transfer started at position s
PollsAfter(s) ==
    {k \in (s + 1)..Len(log) : \A j \in (s + 1)..k : IsPoll(log[j])}

\* C18: after it started the transfer spi_command reads usr at most 10
\* times; when the 10th poll still shows bit 18 set it fails with Timeout
\* and w0 is not read; w0 is read only right after a poll that showed bit 18
\* clear.
C18_PollBound ==
    /\ \A s \in 1..Len(log) :
          IsSpiStart(log[s]) =>
              /\ Cardinality(PollsAfter(s)) <= 10
              /\ (s + 10 <= Len(log) /\ PollsAfter(s) = (s + 1)..(s + 10)
                    /\ IsBusy(log[s + 10])) =>
                     /\ Len(log) = s + 10
                     /\ result = Timeout
    /\ \A k \in 2..Len(log) :
          (IsCmd(log[k], ReadReg) /\ log[k].reg = "w0") =>
              /\ IsPoll(log[k - 1])
              /\ log[k - 1].resp = Ok
              /\ ~TestBit(log[k - 1].rval, 18)

\* connect has returned a Flasher to the caller
FlasherReturned == pc = "idle" \/ op \in AfterConnect

\* C19: the Flasher a successful connect returns, for as long as it is
\* used, has a flash_size that is one of the seven sizes 0x12..0x18, not
\* the FlashRetry sentinel, and a spi_params that is a TRY_SPI candidate:
\* the one under which connect read that size; the sentinel a retrying
\* flash_detect stored is gone when flash_size() can be called.
C19_ValidAfterConnect ==
    FlasherReturned =>
        /\ flash_size \in 18..24
        /\ flash_size # FlashRetry
        /\ \E j \in 1..Len(TRY_SPI_PARAMS) : spi_params = TRY_SPI_PARAMS[j]
        /\ op = "connect" =>
              LET ids == IdReads
              IN  /\ result = Ok
                  /\ Len(ids) >= 1
                  /\ flash_size = SizeByteAt(ids[Len(ids)])
                  /\ spi_params = TRY_SPI_PARAMS[Len(ids)]
                  /\ \A j \in 1..(Len(ids) - 1) : SizeByteAt(ids[j]) = FlashRetry

\* connect returned after flash_detect had stored the sentinel once
C19_Witness ==
    /\ op = "connect"
    /\ pc = "idle"
    /\ result = Ok
    /\ Len(IdReads) = 2
    /\ SizeByte(1) = FlashRetry
    /\ flash_size = 20
    /\ spi_params = TRY_SPI_PARAMS[2]

\* the DATA commands that follow the BEGIN at position k
DataAfter(k) ==
    {j \in (k + 1)..Len(log) : \A i \in (k + 1)..j : IsData(log[i])}

\* C20: in load_elf_to_ram and load_elf_to_flash, the DATA commands after a
\* BEGIN carry the sequence numbers 0, 1, ... in that order, none is larger
\* (data plus padding) than the block_size the BEGIN declared, and once the
\* segment has been streamed their number is the block count the BEGIN
\* declared.
C20_BlocksAsDeclared ==
    op \in {"load_elf_to_ram", "load_elf_to_flash"} =>
        \A k \in 1..Len(log) :
            (IsBegin(log[k]) /\ log[k].resp = Ok) =>
                LET data == DataAfter(k)
                IN  /\ \A j \in data :
                          /\ log[j].params[2] = j - k - 1
                          /\ log[j].dlen + log[j].plen <= log[k].params[3]
                    /\ (k + Cardinality(data) < Len(log)) =>
                          Cardinality(data) = log[k].params[2]

\* a load returned the error of an image it does not accept
BadImageRejected ==
    /\ pc = "idle"
    /\ op \in {"load_elf_to_ram", "load_elf_to_flash"}
    /\ result \in {InvalidElf, ElfNotRamLoadable}

\* C21: when load_elf_to_ram or load_elf_to_flash has failed with InvalidElf,
\* or load_elf_to_ram with ElfNotRamLoadable, that call has written no command
\* to the transport and has not invoked the transport's reset: its transcript
\* is empty.
C21_BadImageBeforeWire ==
    BadImageRejected => log = <<>>

====
